---- MODULE Spec2Model ----
(***************************************************************************)
(* Model of the white-noise session of src/src/web_server.cpp: the HTTP    *)
(* handlers /audio/whitenoise, /audio/whitenoise/stop, /audio/select and   *)
(* /audio/list, start_noise, stop_noise, ensure_audio_context and the      *)
(* deadline monitor thread created by start_monitor_if_needed.             *)
(*                                                                         *)
(* The HTTP server's worker threads and the monitor thread interleave at   *)
(* the granularity of the statements between two device calls.  A worker   *)
(* shares nothing before it takes g_audioMutex, so the workers are         *)
(* anonymous: pc and local are those of the one worker inside a critical   *)
(* section, for any number of worker threads.                              *)
(*                                                                         *)
(* The audio subsystem's thread runs data_callback, with frand_signed, on a *)
(* started device and takes no lock.  A 32-bit seed is kept as two 16-bit  *)
(* halves and a sample as the exact product of the value and the amplitude.*)
(*                                                                         *)
(* Spec follows the session against the clock, SpecAudio the session with  *)
(* its callback, SpecBoundary the start requests with values around the    *)
(* valid ranges, SpecGen the generator from chosen seeds.                  *)
(*                                                                         *)
(* Time is a discrete clock in milliseconds.  A critical section takes no  *)
(* time (spec section 5: device calls return promptly) and sleep_for(50)   *)
(* sleeps exactly 50 ms.  Amplitudes are in hundredths (0.2f is 20).       *)
(***************************************************************************)
EXTENDS Integers, Sequences, FiniteSets, TLC

\* ---------------------------------------------------------------- bounds
MaxTime == 300
MaxEndpoints == 2
\* Frames one callback is asked for, and frames asked for on one device.
MaxFrames == 2
MaxSessionFrames == 3
\* The time up to which the sessions with a callback are followed.
MaxAudioTime == 100

\* ------------------------------------------------------ program constants
DefaultRate == 48000
DefaultChannels == 2
DefaultDurationMs == 3000
DefaultAmp == 20
MinRate == 8000
MaxChannels == 8
MaxAmp == 100
MinDurationMs == 100
MonitorPollMs == 50
FixedSeed == 1234567
LcgMultiplier == 1664525
LcgIncrement == 1013904223
\* 0x00FFFFFF and 0x01000000
SampleMask == 16777215
SampleScale == 16777216

\* The threads that take g_audioMutex.
Worker == "worker"
MonitorTid == "monitor"

\* An optional value is a set with at most one element: {} is "none"
\* (a JSON field that is missing or not a number, a null device id).
None == {}
Some(x) == {x}
ValueOf(o) == CHOOSE x \in o : TRUE

\* Bodies of POST /audio/whitenoise: one that relies on the defaults and asks
\* for duration 0, one that sets every field to a valid value.
Requests ==
  { [rate |-> None, channels |-> None, duration_ms |-> Some(0), amp |-> None],
    [rate |-> Some(8000), channels |-> Some(1), duration_ms |-> Some(150),
     amp |-> Some(100)] }

\* "index" parameter of POST /audio/select as std::stoi sees it: the integer
\* it parses, or none when it throws.
IndexParams == {None, Some(0), Some(5)}

\* Steps by which the clock advances.
TickSteps == {25, 50}

\* An unsigned 32-bit integer as its two 16-bit halves.
U32(n) == [hi |-> n \div 2^16, lo |-> n % 2^16]

VARIABLES
  g_ctx_inited,             \* web_server.cpp:19
  g_selectedPlaybackIndex,  \* web_server.cpp:20
  g_noiseDeviceInited,      \* web_server.cpp:122
  g_noiseRunning,           \* web_server.cpp:123
  g_noiseState,             \* web_server.cpp:124
  g_monitorRunning,         \* web_server.cpp:126
  g_hasDeadline,            \* web_server.cpp:127
  g_noiseStopAt,            \* web_server.cpp:128
  g_audioMutex,             \* web_server.cpp:17, the set of threads holding it
  pc,                       \* position of the worker holding the mutex
  local,                    \* locals of the handler that worker runs
  monitorPc,                \* position of the monitor thread
  wakeAt,                   \* time at which the monitor's sleep_for returns
  now,                      \* std::chrono::steady_clock::now(), in ms
  device,                   \* the audio subsystem's view of g_noiseDevice
  calls,                    \* device calls made in the current critical section
  hist                      \* history: sessions and completed operations

vars == << g_ctx_inited, g_selectedPlaybackIndex, g_noiseDeviceInited,
           g_noiseRunning, g_noiseState, g_monitorRunning, g_hasDeadline,
           g_noiseStopAt, g_audioMutex, pc, local, monitorPc, wakeAt, now,
           device, calls, hist >>

\* The fields of the NoiseSession.
session == << g_noiseDeviceInited, g_noiseRunning, g_hasDeadline, g_noiseStopAt >>

\* Locals of a worker that runs no handler.
NoLocal ==
  [ req |-> [rate |-> None, channels |-> None, duration_ms |-> None, amp |-> None],
    rate |-> 0, channels |-> 0, duration_ms |-> 0, amp |-> 0,
    idx |-> 0, enumerated |-> FALSE, playbackCount |-> 0, pDeviceID |-> None,
    ok |-> FALSE ]

Init ==
  /\ g_ctx_inited \in BOOLEAN      \* main's ensure_audio_context may fail
  /\ g_selectedPlaybackIndex = -1
  /\ g_noiseDeviceInited = FALSE
  /\ g_noiseRunning = FALSE
  /\ g_noiseState = [amplitude |-> 0, channels |-> 0, seed |-> U32(0)]
  /\ g_monitorRunning = FALSE
  /\ g_hasDeadline = FALSE
  /\ g_noiseStopAt = 0
  /\ g_audioMutex = {}
  /\ pc = "idle"
  /\ local = NoLocal
  /\ monitorPc = "none"
  /\ wakeAt = 0
  /\ now = 0
  /\ device = [live |-> 0, started |-> FALSE, endpoint |-> None,
               frames |-> 0, out |-> << >>]
  /\ calls = << >>
  /\ hist = [sessStart |-> 0, sessDuration |-> 0, prevDeadline |-> 0,
             wasRunning |-> FALSE, hadDeadline |-> FALSE, monitorThreads |-> 0,
             seedBefore |-> U32(0)]

\* ------------------------------------------------ the audio subsystem
\* frames counts the frames the device has asked its callback for, out is
\* the output buffer of the last callback.
ma_device_stop(d) == [d EXCEPT !.started = FALSE]
ma_device_uninit(d) ==
  [d EXCEPT !.live = IF d.live > 0 THEN d.live - 1 ELSE 0, !.started = FALSE,
            !.endpoint = None, !.frames = 0, !.out = << >>]
ma_device_init(d, id) ==
  [d EXCEPT !.live = d.live + 1, !.endpoint = id, !.frames = 0, !.out = << >>]
ma_device_start(d) == [d EXCEPT !.started = TRUE]

\* ------------------------------------------------ the mutex
\* std::lock_guard<std::mutex> lock(g_audioMutex) and its destructor.
Lock(t) == g_audioMutex = {} /\ g_audioMutex' = {t}
Unlock(t) == g_audioMutex' = g_audioMutex \ {t} /\ calls' = << >>
Holds(t) == t \in g_audioMutex

\* ------------------------------------------------ the validating boundary
\* web_server.cpp:280-294: a numeric field replaces the default.
FieldOr(field, default) == IF field = None THEN default ELSE ValueOf(field)

\* web_server.cpp:298 (noise.c:67)
\* (faulty variant first: the nearest bound instead of the default)
ClampChannelsNearest(c) == IF c = 0 THEN 1 ELSE IF c > MaxChannels THEN MaxChannels ELSE c
ClampChannels(c) == IF c = 0 \/ c > MaxChannels THEN DefaultChannels ELSE c
\* web_server.cpp:299 (noise.c:68)
ClampRateNone(r) == r          \* faulty variant: no lower bound
ClampRate(r) == IF r < MinRate THEN MinRate ELSE r
\* web_server.cpp:300-301 (noise.c:69-70)
ClampAmp(a) == IF a < 0 THEN 0 ELSE IF a > MaxAmp THEN MaxAmp ELSE a
\* web_server.cpp:302
ClampDurationNone(d) == d      \* faulty variant: no lower bound
ClampDuration(d) == IF d < MinDurationMs THEN MinDurationMs ELSE d


\* ------------------------------------------------ ensure_audio_context
\* web_server.cpp:22-31: a critical section of its own; ma_context_init
\* succeeds or fails.
ensure_audio_context ==
  /\ g_audioMutex = {}
  /\ g_ctx_inited' \in (IF g_ctx_inited THEN {TRUE} ELSE BOOLEAN)

\* ------------------------------------------------ POST /audio/whitenoise
\* web_server.cpp:279-303 and 154-155: parse the body, fall back to the
\* defaults, clamp, call start_noise, which ensures the context and takes
\* the lock.
HandleWhitenoiseFrom(requests) ==
  /\ pc = "idle"
  /\ \E req \in requests :
       local' = [ NoLocal EXCEPT
           !.req = req,
           !.rate = ClampRate(FieldOr(req.rate, DefaultRate)),
           !.channels = ClampChannels(FieldOr(req.channels, DefaultChannels)),
           !.amp = ClampAmp(FieldOr(req.amp, DefaultAmp)),
           !.duration_ms = ClampDuration(FieldOr(req.duration_ms, DefaultDurationMs)) ]
  /\ ensure_audio_context
  /\ Lock(Worker)
  /\ pc' = "start_teardown"
  /\ hist' = [hist EXCEPT !.wasRunning = g_noiseRunning, !.hadDeadline = g_hasDeadline]
  /\ UNCHANGED << g_selectedPlaybackIndex, g_noiseDeviceInited, g_noiseRunning,
                  g_noiseState, g_monitorRunning, g_hasDeadline, g_noiseStopAt,
                  monitorPc, wakeAt, now, device, calls >>

HandleWhitenoise == HandleWhitenoiseFrom(Requests)

\* web_server.cpp:159-166: the device calls of the teardown.
\* (faulty variant: the device is stopped but not released)
TeardownDeviceNoUninit(d) == IF g_noiseRunning THEN ma_device_stop(d) ELSE d
\* (faulty variant: the device is neither stopped nor released)
TeardownDeviceNone(d) == d
TeardownDevice(d) ==
  LET d1 == IF g_noiseRunning THEN ma_device_stop(d) ELSE d
  IN  IF g_noiseDeviceInited THEN ma_device_uninit(d1) ELSE d1
TeardownCalls(c) ==
  LET c1 == IF g_noiseRunning THEN Append(c, "stop") ELSE c
  IN  IF g_noiseDeviceInited THEN Append(c1, "uninit") ELSE c1

\* web_server.cpp:156-166: give up without a context, else stop and release
\* the device of the previous session.
StartTeardown ==
  /\ pc = "start_teardown"
  /\ Holds(Worker)
  /\ IF ~g_ctx_inited
       THEN /\ local' = [local EXCEPT !.ok = FALSE]
            /\ pc' = "start_ret"
            /\ UNCHANGED << g_noiseRunning, g_noiseDeviceInited, device, calls >>
       ELSE /\ g_noiseRunning' = FALSE
            /\ g_noiseDeviceInited' = FALSE
            /\ device' = TeardownDevice(device)
            /\ calls' = TeardownCalls(calls)
            /\ pc' = "start_config"
            /\ UNCHANGED local
  /\ UNCHANGED << g_ctx_inited, g_selectedPlaybackIndex, g_noiseState,
                  g_monitorRunning, g_hasDeadline, g_noiseStopAt, g_audioMutex,
                  monitorPc, wakeAt, now, hist >>

\* web_server.cpp:176-180: the device id the config is given; enumerated says
\* whether ma_context_get_devices succeeded, playbackCount what it counted.
\* (faulty variant first: the bound check off by one)
SelectDeviceIDOffByOne(enumerated, playbackCount) ==
  IF enumerated /\ g_selectedPlaybackIndex >= 0
                /\ g_selectedPlaybackIndex <= playbackCount
    THEN Some(g_selectedPlaybackIndex)
    ELSE None
SelectDeviceID(enumerated, playbackCount) ==
  IF enumerated /\ g_selectedPlaybackIndex >= 0
                /\ g_selectedPlaybackIndex < playbackCount
    THEN Some(g_selectedPlaybackIndex)
    ELSE None

\* web_server.cpp:184: the seed a start gives the generator.
SeedAtStartKept == g_noiseState.seed    \* faulty variant: the seed is not reset
SeedAtStart == U32(FixedSeed)

\* web_server.cpp:168-185: build the config from a fresh enumeration and
\* reset the generator state.
StartConfig ==
  /\ pc = "start_config"
  /\ Holds(Worker)
  /\ \E enumerated \in BOOLEAN,
        playbackCount \in 0..MaxEndpoints :
       /\ ~enumerated => playbackCount = 0     \* web_server.cpp:175
       /\ local' = [local EXCEPT !.pDeviceID = SelectDeviceID(enumerated, playbackCount),
                              !.enumerated = enumerated,
                              !.playbackCount = playbackCount]
  /\ g_noiseState' = [amplitude |-> local.amp, channels |-> local.channels,
                      seed |-> SeedAtStart]
  /\ hist' = [hist EXCEPT !.seedBefore = g_noiseState.seed]
  /\ pc' = "start_init"
  /\ UNCHANGED << g_ctx_inited, g_selectedPlaybackIndex, g_noiseDeviceInited,
                  g_noiseRunning, g_monitorRunning, g_hasDeadline, g_noiseStopAt,
                  g_audioMutex, monitorPc, wakeAt, now, device, calls >>

\* web_server.cpp:187-190: ma_device_init succeeds or fails.
StartInit ==
  /\ pc = "start_init"
  /\ Holds(Worker)
  /\ \E success \in BOOLEAN :
       IF success
         THEN /\ device' = ma_device_init(device, local.pDeviceID)
              /\ calls' = Append(calls, "init")
              /\ g_noiseDeviceInited' = TRUE
              /\ pc' = "start_device"
              /\ UNCHANGED local
         ELSE /\ local' = [local EXCEPT !.ok = FALSE]
              /\ calls' = Append(calls, "init_failed")
              /\ pc' = "start_ret"
              /\ UNCHANGED << device, g_noiseDeviceInited >>
  /\ UNCHANGED << g_ctx_inited, g_selectedPlaybackIndex, g_noiseRunning,
                  g_noiseState, g_monitorRunning, g_hasDeadline, g_noiseStopAt,
                  g_audioMutex, monitorPc, wakeAt, now, hist >>

\* web_server.cpp:192: the device is released when it cannot be started.
StartFailureDeviceLeak(d) == d          \* faulty variant: no release
StartFailureDevice(d) == ma_device_uninit(d)
\* web_server.cpp:193: the flag after the release.
StartFailureInitedStale == g_noiseDeviceInited   \* faulty variant: flag kept
StartFailureInited == FALSE

\* web_server.cpp:191-195: ma_device_start succeeds, or fails and the device
\* is released.
StartDevice ==
  /\ pc = "start_device"
  /\ Holds(Worker)
  /\ \E success \in BOOLEAN :
       IF success
         THEN /\ device' = ma_device_start(device)
              /\ calls' = Append(calls, "start")
              /\ pc' = "start_arm"
              /\ UNCHANGED << local, g_noiseDeviceInited >>
         ELSE /\ device' = StartFailureDevice(device)
              /\ calls' = Append(Append(calls, "start_failed"), "uninit")
              /\ g_noiseDeviceInited' = StartFailureInited
              /\ local' = [local EXCEPT !.ok = FALSE]
              /\ pc' = "start_ret"
  /\ UNCHANGED << g_ctx_inited, g_selectedPlaybackIndex, g_noiseRunning,
                  g_noiseState, g_monitorRunning, g_hasDeadline, g_noiseStopAt,
                  g_audioMutex, monitorPc, wakeAt, now, hist >>

\* web_server.cpp:197
ArmDeadline(duration_ms) == duration_ms > 0
\* web_server.cpp:199
\* (faulty variant first: an armed deadline is not overwritten)
DeadlineAtKeepOld(duration_ms) ==
  IF g_hasDeadline THEN g_noiseStopAt ELSE now + duration_ms
DeadlineAt(duration_ms) == now + duration_ms
\* web_server.cpp:131
MonitorNeededNever == FALSE     \* faulty variant: the monitor is never created
MonitorNeededAlways == TRUE     \* faulty variant: a thread for every timed start
MonitorNeeded == ~g_monitorRunning

\* web_server.cpp:196-201, with start_monitor_if_needed (130-133, 149-151):
\* the session is Active, the deadline is armed and the monitor thread is
\* created unless it is already running.
StartArm ==
  /\ pc = "start_arm"
  /\ Holds(Worker)
  /\ g_noiseRunning' = TRUE
  /\ g_hasDeadline' = ArmDeadline(local.duration_ms)
  /\ g_noiseStopAt' = IF ArmDeadline(local.duration_ms)
                        THEN DeadlineAt(local.duration_ms) ELSE g_noiseStopAt
  /\ IF ArmDeadline(local.duration_ms) /\ MonitorNeeded
       THEN /\ g_monitorRunning' = TRUE
            /\ monitorPc' = "sleep"
            /\ wakeAt' = now + MonitorPollMs
       ELSE UNCHANGED << g_monitorRunning, monitorPc, wakeAt >>
  /\ hist' = [hist EXCEPT
       !.prevDeadline = hist.sessStart + hist.sessDuration,
       !.sessStart = now,
       !.sessDuration = local.duration_ms,
       !.monitorThreads = IF ArmDeadline(local.duration_ms) /\ MonitorNeeded
                            THEN hist.monitorThreads + 1 ELSE hist.monitorThreads]
  /\ local' = [local EXCEPT !.ok = TRUE]
  /\ pc' = "start_ret"
  /\ UNCHANGED << g_ctx_inited, g_selectedPlaybackIndex, g_noiseDeviceInited,
                  g_noiseState, g_audioMutex, now, device, calls >>

\* web_server.cpp:188, 194, 202-203 and 304: the lock is released and the
\* handler answers.
StartReturn ==
  /\ pc = "start_ret"
  /\ Holds(Worker)
  /\ Unlock(Worker)
  /\ hist' = [hist EXCEPT !.wasRunning = FALSE, !.hadDeadline = FALSE,
                          !.seedBefore = U32(0)]
  /\ local' = NoLocal
  /\ pc' = "idle"
  /\ UNCHANGED << g_ctx_inited, g_selectedPlaybackIndex, g_noiseDeviceInited,
                  g_noiseRunning, g_noiseState, g_monitorRunning, g_hasDeadline,
                  g_noiseStopAt, monitorPc, wakeAt, now, device >>

\* ------------------------------------------------ POST /audio/whitenoise/stop
\* web_server.cpp:308-309 and 205-206: stop_noise takes the lock.
HandleStop ==
  /\ pc = "idle"
  /\ Lock(Worker)
  /\ pc' = "stop_body"
  /\ hist' = [hist EXCEPT !.wasRunning = g_noiseRunning, !.hadDeadline = g_hasDeadline]
  /\ UNCHANGED << g_ctx_inited, g_selectedPlaybackIndex, g_noiseDeviceInited,
                  g_noiseRunning, g_noiseState, g_monitorRunning, g_hasDeadline,
                  g_noiseStopAt, local, monitorPc, wakeAt, now, device, calls >>

\* web_server.cpp:207-214: the device calls of stop_noise.
\* (faulty variant: the device is stopped but not released)
StopDeviceNoUninit(d) == IF g_noiseRunning THEN ma_device_stop(d) ELSE d
StopDevice(d) ==
  LET d1 == IF g_noiseRunning THEN ma_device_stop(d) ELSE d
  IN  IF g_noiseDeviceInited THEN ma_device_uninit(d1) ELSE d1
StopCalls(c) ==
  LET c1 == IF g_noiseRunning THEN Append(c, "stop") ELSE c
  IN  IF g_noiseDeviceInited THEN Append(c1, "uninit") ELSE c1

\* web_server.cpp:207-215
StopBody ==
  /\ pc = "stop_body"
  /\ Holds(Worker)
  /\ g_noiseRunning' = FALSE
  /\ g_noiseDeviceInited' = FALSE
  /\ device' = StopDevice(device)
  /\ calls' = StopCalls(calls)
  /\ g_hasDeadline' = FALSE
  /\ pc' = "stop_ret"
  /\ UNCHANGED << g_ctx_inited, g_selectedPlaybackIndex, g_noiseState,
                  g_monitorRunning, g_noiseStopAt, g_audioMutex, local, monitorPc,
                  wakeAt, now, hist >>

\* web_server.cpp:216 and 310
StopReturn ==
  /\ pc = "stop_ret"
  /\ Holds(Worker)
  /\ Unlock(Worker)
  /\ hist' = [hist EXCEPT !.wasRunning = FALSE, !.hadDeadline = FALSE]
  /\ pc' = "idle"
  /\ UNCHANGED << g_ctx_inited, g_selectedPlaybackIndex, g_noiseDeviceInited,
                  g_noiseRunning, g_noiseState, g_monitorRunning, g_hasDeadline,
                  g_noiseStopAt, local, monitorPc, wakeAt, now, device >>

\* ------------------------------------------------ POST /audio/select
\* web_server.cpp:270: std::stoi's result, or -1 when it throws.
ParseIndex(param) == IF param = None THEN 0 - 1 ELSE ValueOf(param)

\* web_server.cpp:275 and 69-70: the list is rendered after the critical
\* section, which ensures the context.
RenderEnsuresContext == g_ctx_inited' \in (IF g_ctx_inited THEN {TRUE} ELSE BOOLEAN)

\* (faulty variant: the index is stored without the lock)
HandleSelectUnlocked ==
  /\ pc = "idle"
  /\ \E param \in IndexParams : g_selectedPlaybackIndex' = ParseIndex(param)
  /\ RenderEnsuresContext
  /\ UNCHANGED << g_noiseDeviceInited, g_noiseRunning, g_noiseState,
                  g_monitorRunning, g_hasDeadline, g_noiseStopAt, g_audioMutex,
                  pc, local, monitorPc, wakeAt, now, device, calls, hist >>
\* web_server.cpp:268-272: the index is parsed and the lock is taken.
HandleSelect ==
  /\ pc = "idle"
  /\ \E param \in IndexParams : local' = [NoLocal EXCEPT !.idx = ParseIndex(param)]
  /\ Lock(Worker)
  /\ pc' = "select_store"
  /\ UNCHANGED << g_ctx_inited, g_selectedPlaybackIndex, g_noiseDeviceInited,
                  g_noiseRunning, g_noiseState, g_monitorRunning, g_hasDeadline,
                  g_noiseStopAt, monitorPc, wakeAt, now, device, calls, hist >>

\* (faulty variant: selecting an endpoint also rebinds the device)
SelectDeviceRebound(d) == [d EXCEPT !.endpoint = Some(local.idx)]
\* web_server.cpp:273: the device is not touched.
SelectDevice(d) == d

\* web_server.cpp:273-276: the index is stored, the lock is released and the
\* list is rendered.
SelectStore ==
  /\ pc = "select_store"
  /\ Holds(Worker)
  /\ g_selectedPlaybackIndex' = local.idx
  /\ device' = SelectDevice(device)
  /\ Unlock(Worker)
  /\ RenderEnsuresContext
  /\ local' = NoLocal
  /\ pc' = "idle"
  /\ UNCHANGED << g_noiseDeviceInited, g_noiseRunning, g_noiseState,
                  g_monitorRunning, g_hasDeadline, g_noiseStopAt, monitorPc,
                  wakeAt, now, hist >>

\* ------------------------------------------------ GET /audio/list
\* web_server.cpp:264-265 and 69-96: the context is ensured and the list
\* rendered under the lock; no other global is written.
HandleList ==
  /\ pc = "idle"
  /\ ensure_audio_context
  /\ UNCHANGED << g_selectedPlaybackIndex, g_noiseDeviceInited, g_noiseRunning,
                  g_noiseState, g_monitorRunning, g_hasDeadline, g_noiseStopAt,
                  g_audioMutex, pc, local, monitorPc, wakeAt, now, device, calls,
                  hist >>

\* ------------------------------------------------ the monitor thread
\* web_server.cpp:137
MonitorArmed == g_noiseRunning /\ g_hasDeadline
\* web_server.cpp:138
DeadlineElapsed == now >= g_noiseStopAt

\* web_server.cpp:134-136: the sleep is over and the lock is taken.
MonitorLock ==
  /\ monitorPc = "sleep"
  /\ g_monitorRunning
  /\ now >= wakeAt
  /\ Lock(MonitorTid)
  /\ monitorPc' = "check"
  /\ UNCHANGED << g_ctx_inited, g_selectedPlaybackIndex, g_noiseDeviceInited,
                  g_noiseRunning, g_noiseState, g_monitorRunning, g_hasDeadline,
                  g_noiseStopAt, pc, local, wakeAt, now, device, calls, hist >>

\* web_server.cpp:137-147
MonitorCheck ==
  /\ monitorPc = "check"
  /\ Holds(MonitorTid)
  /\ IF MonitorArmed /\ DeadlineElapsed
       THEN /\ g_noiseRunning' = FALSE
            /\ g_noiseDeviceInited' = FALSE
            /\ device' = IF g_noiseDeviceInited
                           THEN ma_device_uninit(ma_device_stop(device))
                           ELSE ma_device_stop(device)
            /\ calls' = IF g_noiseDeviceInited
                          THEN Append(Append(calls, "stop"), "uninit")
                          ELSE Append(calls, "stop")
            /\ g_hasDeadline' = FALSE
       ELSE UNCHANGED << g_noiseRunning, g_noiseDeviceInited, device, calls,
                         g_hasDeadline >>
  /\ monitorPc' = "unlock"
  /\ UNCHANGED << g_ctx_inited, g_selectedPlaybackIndex, g_noiseState,
                  g_monitorRunning, g_noiseStopAt, g_audioMutex, pc, local,
                  wakeAt, now, hist >>

\* web_server.cpp:148 and 134-135: the lock is released and the next
\* sleep_for(50 ms) begins.
MonitorUnlock ==
  /\ monitorPc = "unlock"
  /\ Holds(MonitorTid)
  /\ Unlock(MonitorTid)
  /\ monitorPc' = "sleep"
  /\ wakeAt' = now + MonitorPollMs
  /\ UNCHANGED << g_ctx_inited, g_selectedPlaybackIndex, g_noiseDeviceInited,
                  g_noiseRunning, g_noiseState, g_monitorRunning, g_hasDeadline,
                  g_noiseStopAt, pc, local, now, device, hist >>

\* ------------------------------------------------ the generator
\* web_server.cpp:105 (noise.c:20): *s = (*s * 1664525u) + 1013904223u in
\* unsigned 32-bit arithmetic, computed on the 16-bit halves so that no
\* intermediate value needs more than 31 bits.
\* (faulty variant first: the carry out of the low half is lost)
NextSeedNoCarry(s) ==
  LET aHi == LcgMultiplier \div 2^16
      aLo == LcgMultiplier % 2^16
      p0 == s.lo * aLo
      sumLo == (p0 % 2^16) + (LcgIncrement % 2^16)
      sumHi == (p0 \div 2^16) + ((s.hi * aLo) % 2^16) + ((s.lo * aHi) % 2^16)
                 + (LcgIncrement \div 2^16)
  IN  [hi |-> sumHi % 2^16, lo |-> sumLo % 2^16]
NextSeed(s) ==
  LET aHi == LcgMultiplier \div 2^16
      aLo == LcgMultiplier % 2^16
      p0 == s.lo * aLo
      sumLo == (p0 % 2^16) + (LcgIncrement % 2^16)
      sumHi == (p0 \div 2^16) + ((s.hi * aLo) % 2^16) + ((s.lo * aHi) % 2^16)
                 + (LcgIncrement \div 2^16) + (sumLo \div 2^16)
  IN  [hi |-> sumHi % 2^16, lo |-> sumLo % 2^16]

\* web_server.cpp:106 (noise.c:21): *s & 0x00FFFFFF, the low 24 bits.
MaskedBits(s) == (s.hi % ((SampleMask + 1) \div 2^16)) * 2^16 + s.lo

\* web_server.cpp:106-107 (noise.c:21-22): v = masked / 0x01000000 and
\* v * 2 - 1, as the numerator of a fraction over SampleScale.
SignedValueUnshifted(m) == 2 * m     \* faulty variant: not moved to [-1,1)
SignedValue(m) == 2 * m - SampleScale

\* web_server.cpp:104-108: the seed after the step and the value returned.
frand_signed(s) ==
  LET s1 == NextSeed(s)
  IN  [seed |-> s1, value |-> SignedValue(MaskedBits(s1))]

\* web_server.cpp:113 (noise.c:28)
TotalSamplesFramesOnly(frameCount, channels) == frameCount   \* faulty variant
TotalSamples(frameCount, channels) == frameCount * channels

\* web_server.cpp:114-116: one sample per step, frand_signed times the
\* amplitude.  A sample is the numerator of a fraction over 100 * SampleScale
\* (the amplitude is in hundredths); the product is exact, where the float
\* product is rounded to 24 bits.
RECURSIVE FillBuffer(_, _, _)
FillBuffer(st, n, out) ==
  IF n = 0
    THEN [seed |-> st.seed, out |-> out]
    ELSE LET r == frand_signed(st.seed)
         IN  FillBuffer([st EXCEPT !.seed = r.seed], n - 1,
                        Append(out, r.value * st.amplitude))

\* web_server.cpp:110-118 (noise.c:25-33)
data_callback(st, frameCount) ==
  FillBuffer(st, TotalSamples(frameCount, st.channels), << >>)

\* The audio subsystem calls data_callback on its own thread while the
\* device is started; the callback takes no lock.
DataCallback ==
  /\ device.started
  /\ \E frameCount \in 1..MaxFrames :
       LET r == data_callback(g_noiseState, frameCount)
       IN  /\ device.frames + frameCount <= MaxSessionFrames
           /\ g_noiseState' = [g_noiseState EXCEPT !.seed = r.seed]
           /\ device' = [device EXCEPT !.frames = @ + frameCount, !.out = r.out]
  /\ UNCHANGED << g_ctx_inited, g_selectedPlaybackIndex, g_noiseDeviceInited,
                  g_noiseRunning, g_monitorRunning, g_hasDeadline, g_noiseStopAt,
                  g_audioMutex, pc, local, monitorPc, wakeAt, now, calls, hist >>

\* ------------------------------------------------ the clock
\* Time passes while no thread is in a critical section, and not beyond the
\* end of the monitor's sleep.
TickBy(steps, limit) ==
  /\ g_audioMutex = {}
  /\ \E dt \in steps :
       /\ now + dt <= limit
       /\ monitorPc = "sleep" => now + dt <= wakeAt
       /\ now' = now + dt
  /\ UNCHANGED << g_ctx_inited, g_selectedPlaybackIndex, g_noiseDeviceInited,
                  g_noiseRunning, g_noiseState, g_monitorRunning, g_hasDeadline,
                  g_noiseStopAt, g_audioMutex, pc, local, monitorPc, wakeAt,
                  device, calls, hist >>

Tick == TickBy(TickSteps, MaxTime)

Next ==
  \/ HandleWhitenoise \/ StartTeardown \/ StartConfig \/ StartInit
  \/ StartDevice \/ StartArm \/ StartReturn
  \/ HandleStop \/ StopBody \/ StopReturn
  \/ HandleSelect \/ SelectStore
  \/ HandleList
  \/ MonitorLock \/ MonitorCheck \/ MonitorUnlock
  \/ Tick

Spec == Init /\ [][Next]_vars

\* ------------------------------------------------ the sessions with their callback
\* The clock in steps of one poll interval, up to MaxAudioTime.
TickPoll == TickBy({MonitorPollMs}, MaxAudioTime)

\* The workers, the monitor and the audio subsystem's callback thread.
NextAudio ==
  \/ HandleWhitenoise \/ StartTeardown \/ StartConfig \/ StartInit
  \/ StartDevice \/ StartArm \/ StartReturn
  \/ HandleStop \/ StopBody \/ StopReturn
  \/ HandleSelect \/ SelectStore
  \/ HandleList
  \/ MonitorLock \/ MonitorCheck \/ MonitorUnlock
  \/ TickPoll
  \/ DataCallback

SpecAudio == Init /\ [][NextAudio]_vars

\* ------------------------------------------------ the generator alone
\* A started device whose generator state is any of these seeds, amplitudes
\* and channel counts.  The generator has full period (the increment is odd,
\* the multiplier is 1 modulo 4), so every 32-bit seed is one a session
\* reaches; the seeds are 0, the fixed seed, 2^32 - 1 and the predecessors
\* of the seeds whose low 24 bits are 0, 2^24 - 1 and 2^23.
GenSeeds ==
  { U32(0), U32(FixedSeed), [hi |-> 65535, lo |-> 65535],
    [hi |-> 9686, lo |-> 4069], [hi |-> 60405, lo |-> 46880],
    [hi |-> 34902, lo |-> 4069] }
GenAmplitudes == {0, 1, DefaultAmp, MaxAmp}
GenChannels == {1, DefaultChannels, MaxChannels}

InitGen ==
  /\ g_ctx_inited = TRUE
  /\ g_selectedPlaybackIndex = -1
  /\ g_noiseDeviceInited = TRUE
  /\ g_noiseRunning = TRUE
  /\ g_noiseState \in [amplitude : GenAmplitudes, channels : GenChannels,
                       seed : GenSeeds]
  /\ g_monitorRunning = TRUE
  /\ g_hasDeadline = TRUE
  /\ g_noiseStopAt = DefaultDurationMs
  /\ g_audioMutex = {}
  /\ pc = "idle"
  /\ local = NoLocal
  /\ monitorPc = "sleep"
  /\ wakeAt = MonitorPollMs
  /\ now = 0
  /\ device = [live |-> 1, started |-> TRUE, endpoint |-> None,
               frames |-> 0, out |-> << >>]
  /\ calls = << >>
  /\ hist = [sessStart |-> 0, sessDuration |-> DefaultDurationMs,
             prevDeadline |-> 0, wasRunning |-> FALSE, hadDeadline |-> FALSE,
             monitorThreads |-> 1, seedBefore |-> U32(0)]

NextGen == DataCallback

SpecGen == InitGen /\ [][NextGen]_vars

\* ------------------------------------------------ the validating boundary alone
\* Bodies of POST /audio/whitenoise whose rate, channels and amp are missing,
\* below, at, within, and above the valid range.  rate and channels are what
\* the cast to ma_uint32 gives, amp is in hundredths.
BoundaryRequests ==
  [ rate : {None, Some(0), Some(7999), Some(8000), Some(44100)},
    channels : {None, Some(0), Some(1), Some(8), Some(9)},
    duration_ms : {Some(150)},
    amp : {None, Some(0 - 50), Some(0), Some(50), Some(100), Some(170)} ]

HandleWhitenoiseBoundary == HandleWhitenoiseFrom(BoundaryRequests)

\* The start requests alone: the handler and start_noise.
NextBoundary ==
  \/ HandleWhitenoiseBoundary \/ StartTeardown \/ StartConfig \/ StartInit
  \/ StartDevice \/ StartArm \/ StartReturn

SpecBoundary == Init /\ [][NextBoundary]_vars

\* ------------------------------------------------------------ properties
Idle == ~g_noiseRunning
Active == g_noiseRunning
LockFree == g_audioMutex = {}
\* The deadline of the current session: its own start time plus its own duration.
OwnDeadline == hist.sessStart + hist.sessDuration
Released == device.live = 0 /\ ~device.started
\* The device calls of the current critical section.
CallsMade == { calls[i] : i \in 1..Len(calls) }
\* ma_device_init or ma_device_start failed in the current critical section.
DeviceFailed == "init_failed" \in CallsMade \/ "start_failed" \in CallsMade

\* C1: the number of live device handles is never greater than 1, and when
\* start_noise reaches ma_device_init the previous device has been stopped
\* and released.
C1_AtMostOneLiveDevice ==
  /\ device.live <= 1
  /\ pc = "start_init" => Released
C1_Witness ==
  pc = "start_init" /\ hist.wasRunning /\ calls = << "stop", "uninit" >>

\* C2: whenever the lock is not held, the device handle is present iff the
\* status is Active.
C2_HandleIffActive ==
  LockFree => (g_noiseDeviceInited <=> g_noiseRunning)
C2_Witness ==
  LockFree /\ g_noiseDeviceInited /\ g_noiseRunning /\ device.live = 1

\* C3: whenever the lock is not held, a deadline is armed iff the session is
\* Active and its durationMs is greater than 0.
C3_DeadlineIffActiveTimed ==
  LockFree => (g_hasDeadline <=> (Active /\ hist.sessDuration > 0))

\* C4: a start that fails reports failure and leaves the status Idle and no
\* device handle, whether the session was Idle or Active before; the failed
\* start arms no deadline of its own.
C4_FailedStartLeavesIdle ==
  (pc = "start_ret" /\ DeviceFailed)
    => /\ ~local.ok
       /\ Idle
       /\ ~g_noiseDeviceInited
       /\ Released
       /\ g_hasDeadline = hist.hadDeadline
C4_Witness ==
  /\ pc = "start_ret"
  /\ hist.wasRunning
  /\ calls = << "stop", "uninit", "init", "start_failed", "uninit" >>

\* C5: a stop after a start leaves the session Idle with no device handle and
\* no deadline armed.
C5_StopLeavesIdle ==
  pc = "stop_ret"
    => Idle /\ ~g_noiseDeviceInited /\ ~g_hasDeadline /\ Released
C5_Witness ==
  /\ pc = "stop_ret"
  /\ hist.wasRunning /\ hist.hadDeadline
  /\ calls = << "stop", "uninit" >>

\* C6: a stop issued when the session is already Idle makes no device call
\* and changes no session field.
C6_StopIdempotent ==
  [][ (pc = "stop_body" /\ Idle /\ pc' = "stop_ret")
        => (UNCHANGED session /\ UNCHANGED device /\ UNCHANGED calls) ]_vars

\* C7: a timed session is stopped by the monitor no later than one poll
\* interval after its deadline, and the monitor's stop leaves the session
\* Idle, the device released and the deadline cleared.
C7_AutoStopWithinPoll ==
  /\ (Active /\ hist.sessDuration > 0) => now <= OwnDeadline + MonitorPollMs
  /\ (monitorPc = "unlock" /\ calls # << >>)
       => Idle /\ ~g_noiseDeviceInited /\ ~g_hasDeadline /\ Released
C7_Witness ==
  /\ monitorPc = "unlock"
  /\ calls = << "stop", "uninit" >>
  /\ now >= OwnDeadline
  /\ now <= OwnDeadline + MonitorPollMs

\* C8: the monitor stops a session only when that session's own deadline has
\* elapsed.
C8_OwnDeadlineOnly ==
  [][ (monitorPc = "check" /\ Active /\ ~g_noiseRunning')
        => (hist.sessDuration > 0 /\ now >= OwnDeadline) ]_vars
\* The monitor checks a session that replaced an earlier one before the
\* earlier one's deadline, after that deadline and before its own.
C8_Witness ==
  /\ monitorPc = "check"
  /\ Active
  /\ hist.sessStart < hist.prevDeadline
  /\ hist.prevDeadline <= now
  /\ now < OwnDeadline

\* C9: the device is bound to the selected endpoint exactly when the stored
\* ordinal is within a fresh enumeration, else to the default endpoint; the
\* stored ordinal is whatever was requested.
C9_EndpointBinding ==
  /\ pc \in {"start_init", "start_device", "start_arm", "start_ret"}
       => local.pDeviceID =
            IF /\ local.enumerated
               /\ 0 <= g_selectedPlaybackIndex
               /\ g_selectedPlaybackIndex < local.playbackCount
              THEN Some(g_selectedPlaybackIndex) ELSE None
  /\ pc \in {"start_device", "start_arm"} => device.endpoint = local.pDeviceID
  /\ g_selectedPlaybackIndex \in { ParseIndex(param) : param \in IndexParams }
\* A start succeeds on the default endpoint with a stored ordinal that the
\* fresh enumeration does not contain.
C9_Witness ==
  /\ pc = "start_ret" /\ local.ok
  /\ local.enumerated
  /\ g_selectedPlaybackIndex >= local.playbackCount
  /\ device.endpoint = None /\ device.started

\* C10 as stated: a request with duration_ms 0 passes the boundary unchanged
\* and arms no deadline.
C10_ZeroDurationUnbounded ==
  (pc = "start_ret" /\ local.ok /\ local.req.duration_ms = Some(0))
    => (local.duration_ms = 0 /\ ~g_hasDeadline)
\* C10 as amended: a request with duration_ms 0 is raised to 100 ms and arms
\* a deadline 100 ms after the start; a deadline is armed exactly when the
\* duration given to start_noise is greater than 0.
C10_ZeroDurationClamped ==
  (pc = "start_ret" /\ local.ok)
    => /\ g_hasDeadline <=> local.duration_ms > 0
       /\ local.req.duration_ms = Some(0)
            => /\ local.duration_ms = MinDurationMs
               /\ g_hasDeadline
               /\ g_noiseStopAt = now + MinDurationMs
C10_Witness ==
  pc = "start_ret" /\ local.ok /\ local.req.duration_ms = Some(0) /\ g_hasDeadline

\* ------------------------------------------------ the generator's properties
\* The bytes of a 32-bit value below 2^31, and of a seed, least significant
\* first.
BytesOf(n) == << n % 256, (n \div 256) % 256, (n \div 65536) % 256, n \div 16777216 >>
SeedBytes(s) == << s.lo % 256, s.lo \div 256, s.hi % 256, s.hi \div 256 >>
\* (s * 1664525 + 1013904223) mod 2^32 by long multiplication on bytes.
LcgMod32(s) ==
  LET b == SeedBytes(s)
      a == BytesOf(1664525)
      c == BytesOf(1013904223)
      c1 == b[1] * a[1] + c[1]
      c2 == b[1] * a[2] + b[2] * a[1] + c[2] + (c1 \div 256)
      c3 == b[1] * a[3] + b[2] * a[2] + b[3] * a[1] + c[3] + (c2 \div 256)
      c4 == b[1] * a[4] + b[2] * a[3] + b[3] * a[2] + b[4] * a[1] + c[4]
              + (c3 \div 256)
  IN  [hi |-> (c3 % 256) + 256 * (c4 % 256), lo |-> (c1 % 256) + 256 * (c2 % 256)]
RECURSIVE LcgIter(_, _)
LcgIter(s, n) == IF n = 0 THEN s ELSE LcgMod32(LcgIter(s, n - 1))
\* seed mod 2^24 and seed div 2^8.
Low24(s) == (s.hi % 256) * 65536 + s.lo
Top24(s) == s.hi * 256 + (s.lo \div 256)
\* The sample that the 24-bit number m gives at amplitude a (in hundredths):
\* m / 2^24 in [0,1), rescaled to [-1,1), times a; over 100 * 2^24.
SampleOf(m, a) == (2 * m - 16777216) * a
\* A step of the callback thread.
CallbackStep == device.frames' # device.frames

\* C13 as stated: the sample comes from the top 24 bits of the new seed.
C13_SampleFromTopBits ==
  device.out # << >>
    => device.out[Len(device.out)]
         = SampleOf(Top24(g_noiseState.seed), g_noiseState.amplitude)
\* C13 as amended: each generator step replaces the seed by
\* (seed * 1664525 + 1013904223) mod 2^32, and its sample comes from the low
\* 24 bits of the new seed (seed' mod 2^24), divided by 2^24, rescaled to
\* [-1,1) and multiplied by the amplitude.
C13_LcgStepLowBits ==
  [][ CallbackStep =>
        /\ g_noiseState.seed' = LcgIter(g_noiseState.seed, Len(device.out'))
        /\ \A i \in 1..Len(device.out') :
             device.out'[i] = SampleOf(Low24(LcgIter(g_noiseState.seed, i)),
                                       g_noiseState.amplitude) ]_vars
\* One step from the fixed seed 1234567 at amplitude 1.0: the new seed is
\* 2987172410 = 45580 * 2^16 + 41530, whose low 24 bits are 827962 and whose
\* top 24 bits are 11668642.
C13_Witness ==
  /\ device.frames = 1
  /\ g_noiseState.channels = 1
  /\ g_noiseState.amplitude = 100
  /\ g_noiseState.seed = [hi |-> 45580, lo |-> 41530]
  /\ device.out = << (2 * 827962 - 16777216) * 100 >>

\* The samples of the last callback and the amplitude, over 100 * 2^24.
Samples == { device.out[i] : i \in 1..Len(device.out) }
AmplitudeBound == g_noiseState.amplitude * 16777216

\* C14 as stated: for every seed and every amplitude A in [0,1], A = 0
\* included, every sample is at least -A and strictly less than A.
C14_SamplesHalfOpen ==
  \A x \in Samples : 0 - AmplitudeBound <= x /\ x < AmplitudeBound
\* C14 as amended: every sample is at least -A and at most A; it is strictly
\* less than A when A > 0, and it is 0 when A = 0.
C14_SamplesWithinAmplitude ==
  \A x \in Samples :
    /\ 0 - AmplitudeBound <= x /\ x <= AmplitudeBound
    /\ g_noiseState.amplitude > 0 => x < AmplitudeBound
    /\ g_noiseState.amplitude = 0 => x = 0
\* At amplitude 1.0 a callback writes both the least sample, -A (low 24 bits
\* 0), and a sample in the upper half of the range.
C14_Witness ==
  /\ g_noiseState.amplitude = 100
  /\ 0 - AmplitudeBound \in Samples
  /\ \E x \in Samples : x > 0

\* The positions in the last callback's buffer of the samples of frame f.
FrameSamples(f) ==
  { i \in 1..Len(device.out) : (i - 1) \div g_noiseState.channels = f - 1 }

\* C19 as stated: a callback for frameCount frames on C channels advances the
\* seed frameCount * C times and writes frameCount * C samples, sample i from
\* the i-th successor of the seed, and the channels of one frame never
\* receive identical values.
C19_ChannelsNeverEqual ==
  [][ CallbackStep =>
        LET frameCount == device.frames' - device.frames
            total == frameCount * g_noiseState.channels
        IN  /\ Len(device.out') = total
            /\ g_noiseState.seed' = LcgIter(g_noiseState.seed, total)
            /\ \A i \in 1..total :
                 device.out'[i] = SampleOf(Low24(LcgIter(g_noiseState.seed, i)),
                                           g_noiseState.amplitude)
            /\ \A i, j \in 1..total :
                 (i # j /\ (i - 1) \div g_noiseState.channels
                             = (j - 1) \div g_noiseState.channels)
                   => device.out'[i] # device.out'[j] ]_vars
\* C19 as amended: the same counts and the same order; the channels of one
\* frame are computed from pairwise different seeds, and they receive
\* pairwise different values when the amplitude is greater than 0 and the
\* value 0 each when the amplitude is 0.
C19_SeedAdvancesPerSample ==
  [][ CallbackStep =>
        LET frameCount == device.frames' - device.frames
            total == frameCount * g_noiseState.channels
        IN  /\ Len(device.out') = total
            /\ g_noiseState.seed' = LcgIter(g_noiseState.seed, total)
            /\ \A i \in 1..total :
                 device.out'[i] = SampleOf(Low24(LcgIter(g_noiseState.seed, i)),
                                           g_noiseState.amplitude)
            /\ \A i, j \in 1..total :
                 (i # j /\ (i - 1) \div g_noiseState.channels
                             = (j - 1) \div g_noiseState.channels)
                   => /\ LcgIter(g_noiseState.seed, i) # LcgIter(g_noiseState.seed, j)
                      /\ g_noiseState.amplitude > 0
                           => device.out'[i] # device.out'[j]
                      /\ g_noiseState.amplitude = 0
                           => device.out'[i] = 0 /\ device.out'[j] = 0 ]_vars
\* A callback for two frames on 8 channels has written 16 samples, the 8 of
\* each frame pairwise different.
C19_Witness ==
  /\ g_noiseState.channels = 8
  /\ g_noiseState.amplitude > 0
  /\ Len(device.out) = 16
  /\ \A f \in 1..2 :
       Cardinality({ device.out[i] : i \in FrameSamples(f) }) = 8

\* ------------------------------------------------ the boundary's properties
\* A worker is inside start_noise with the request local.req.
InStart ==
  pc \in {"start_teardown", "start_config", "start_init", "start_device",
          "start_arm", "start_ret"}
\* The value a request gives a field, or the field's default.
RequestedRate == IF local.req.rate = None THEN 48000 ELSE ValueOf(local.req.rate)
RequestedChannels == IF local.req.channels = None THEN 2 ELSE ValueOf(local.req.channels)
RequestedAmp == IF local.req.amp = None THEN 20 ELSE ValueOf(local.req.amp)

\* C11 as stated: every out-of-range value is replaced by the nearest valid
\* bound: a rate below 8000 by 8000, a channel count below 1 by 1 and above 8
\* by 8, an amplitude below 0 by 0 and above 1 by 1; in-range values are
\* unchanged.
C11_NearestBound ==
  InStart =>
    /\ local.rate = IF RequestedRate < 8000 THEN 8000 ELSE RequestedRate
    /\ local.channels = IF RequestedChannels < 1 THEN 1
                        ELSE IF RequestedChannels > 8 THEN 8
                        ELSE RequestedChannels
    /\ local.amp = IF RequestedAmp < 0 THEN 0
                   ELSE IF RequestedAmp > 100 THEN 100
                   ELSE RequestedAmp
\* C11 as amended: no request is rejected; a rate below 8000 becomes 8000, an
\* amplitude below 0 becomes 0 and above 1 becomes 1, and a channel count
\* below 1 or above 8 becomes the default 2, not the nearest bound; in-range
\* values are unchanged, and every value start_noise is given is valid.
C11_ClampedOrDefault ==
  InStart =>
    /\ local.rate = IF RequestedRate < 8000 THEN 8000 ELSE RequestedRate
    /\ local.channels = IF RequestedChannels < 1 \/ RequestedChannels > 8
                          THEN 2 ELSE RequestedChannels
    /\ local.amp = IF RequestedAmp < 0 THEN 0
                   ELSE IF RequestedAmp > 100 THEN 100
                   ELSE RequestedAmp
    /\ local.rate >= 8000
    /\ local.channels \in 1..8
    /\ local.amp \in 0..100
\* A request with rate 7999, 9 channels and amplitude 1.7 is inside
\* start_noise with rate 8000, 2 channels and amplitude 1.0.
C11_Witness ==
  /\ pc = "start_teardown"
  /\ local.req.rate = Some(7999) /\ local.rate = 8000
  /\ local.req.channels = Some(9) /\ local.channels = 2
  /\ local.req.amp = Some(170) /\ local.amp = 100

\* C12: a requested amplitude below 0 gives the effective amplitude 0.0 and
\* one above 1 gives 1.0; a requested channel count of 0 or of more than 8
\* gives the effective channel count 2; a channel count in 1..8 is unchanged.
\* The effective values are those of the generator state of the new session.
C12_AmpAndChannelClamp ==
  /\ InStart =>
       /\ RequestedAmp < 0 => local.amp = 0
       /\ RequestedAmp > 100 => local.amp = 100
       /\ (RequestedChannels = 0 \/ RequestedChannels > 8) => local.channels = 2
       /\ RequestedChannels \in 1..8 => local.channels = RequestedChannels
  /\ pc \in {"start_init", "start_device", "start_arm"} =>
       /\ g_noiseState.amplitude = local.amp
       /\ g_noiseState.channels = local.channels
\* Requests with amplitude -0.5 and 0 channels, and with amplitude 1.7 and 9
\* channels, have a started device with amplitude 0.0 or 1.0 and 2 channels.
C12_Witness ==
  /\ pc = "start_arm"
  /\ device.started
  /\ \/ /\ local.req.amp = Some(0 - 50) /\ g_noiseState.amplitude = 0
        /\ local.req.channels = Some(0) /\ g_noiseState.channels = 2
     \/ /\ local.req.amp = Some(170) /\ g_noiseState.amplitude = 100
        /\ local.req.channels = Some(9) /\ g_noiseState.channels = 2

\* ------------------------------------------------ the callback's sessions
\* The samples the device of the current session has asked for so far.
SamplesSoFar == device.frames * g_noiseState.channels

\* C15: every successful start gives the generator the same fixed seed,
\* whatever the seed was before, so that the seed after N samples of a
\* session, and the N-th sample, depend on N, the fixed seed 1234567 and the
\* amplitude only.
C15_FixedSeedEverySession ==
  /\ pc \in {"start_init", "start_device"} => g_noiseState.seed = U32(1234567)
  /\ device.live = 1 =>
       /\ g_noiseState.seed = LcgIter(U32(1234567), SamplesSoFar)
       /\ \A i \in 1..Len(device.out) :
            device.out[i]
              = SampleOf(Low24(LcgIter(U32(1234567),
                                       SamplesSoFar - Len(device.out) + i)),
                         g_noiseState.amplitude)
\* A start has reset the seed that the callbacks of an earlier session had
\* advanced.
C15_Witness ==
  /\ pc = "start_init"
  /\ hist.seedBefore # U32(0) /\ hist.seedBefore # U32(1234567)
  /\ g_noiseState.seed = U32(1234567)
\* C16: at most one monitor thread is ever created; it exists exactly from
\* the first successful start that arms a deadline, and a later start creates
\* none.
C16_SingleMonitor ==
  /\ hist.monitorThreads <= 1
  /\ hist.monitorThreads = 1 <=> g_monitorRunning
  /\ hist.monitorThreads = 1 <=> monitorPc # "none"
  /\ hist.monitorThreads = 1 <=> hist.sessDuration > 0
\* A second timed start has succeeded with the monitor already running.
C16_Witness ==
  /\ pc = "start_ret" /\ local.ok
  /\ g_hasDeadline
  /\ hist.prevDeadline > 0
  /\ hist.monitorThreads = 1

\* C17: a step that writes a session field or the selected endpoint ordinal
\* is taken by the thread that holds the lock; a worker and the monitor are
\* never inside their critical sections together; a step of the callback
\* leaves the lock alone.
C17_WritesUnderLock ==
  [][ /\ (session' # session \/ g_selectedPlaybackIndex' # g_selectedPlaybackIndex)
           => IF pc' # pc THEN Holds(Worker) ELSE Holds(MonitorTid)
      /\ ~(pc' # "idle" /\ monitorPc' \in {"check", "unlock"})
      /\ Cardinality(g_audioMutex') <= 1
      /\ CallbackStep => UNCHANGED g_audioMutex ]_vars
\* The callback has run while a worker holds the lock, between the start of
\* the device and the write of the status.
C17_Witness ==
  /\ pc = "start_arm"
  /\ Holds(Worker)
  /\ g_noiseDeviceInited /\ ~g_noiseRunning
  /\ device.frames > 0

\* C18: the callback writes the seed only, and only while the device is
\* started; every other write of the generator state is made by start_noise
\* under the lock while no device is live, before the new device is created.
C18_GeneratorStateWriters ==
  [][ g_noiseState' # g_noiseState =>
        IF CallbackStep
          THEN /\ device.started
               /\ g_noiseState.amplitude' = g_noiseState.amplitude
               /\ g_noiseState.channels' = g_noiseState.channels
          ELSE /\ Holds(Worker)
               /\ pc = "start_config" /\ pc' = "start_init"
               /\ device.live = 0 /\ ~device.started
               /\ device'.live = 0 /\ ~device'.started ]_vars
\* start_noise has rewritten the generator state after stopping and releasing
\* a device whose callback had run.
C18_Witness ==
  /\ pc = "start_init"
  /\ hist.wasRunning
  /\ calls = << "stop", "uninit" >>
  /\ hist.seedBefore # U32(0) /\ hist.seedBefore # U32(1234567)
  /\ Released

\* C20: the step that stores the selected ordinal changes no session field,
\* no generator state and nothing of the device, so an Active session keeps
\* the endpoint it was bound to; the ordinal is read only by the next start.
C20_SelectChangesOrdinalOnly ==
  [][ (pc = "select_store" \/ g_selectedPlaybackIndex' # g_selectedPlaybackIndex)
        => /\ UNCHANGED session
           /\ UNCHANGED g_noiseState
           /\ UNCHANGED device ]_vars
\* A session bound to endpoint 0 is Active after ordinal 5 was selected.
C20_Witness ==
  /\ LockFree /\ Active
  /\ device.started /\ device.endpoint = Some(0)
  /\ g_selectedPlaybackIndex = 5

====
